---- MODULE Spec2Model ----
(***************************************************************************)
(* Safe Data Tool (src/app.py): re-identification risk scoring             *)
(* (calculate_risk), Laplace noise injection (add_laplace_noise), age      *)
(* generalisation (generalise_age) and the "Apply Privacy" handler.        *)
(*                                                                         *)
(* A table (pandas DataFrame) is a record                                  *)
(*    [dtypes : column name -> dtype,  rows : Seq(column name -> cell)]    *)
(* and a cell is [kind, v]: kind "na" is a missing value (NaN), "num" a    *)
(* number v, "str" the string StrPool[v], "cat" the categorical code v of  *)
(* a pd.cut result.                                                        *)
(***************************************************************************)
EXTENDS Integers, Sequences, FiniteSets, TLC

VARIABLES
    micro_df,      \* the microdata table (microdata / df argument)
    true_df,       \* the true-identifier table (true_ids argument)
    quasi_cols,    \* the selected quasi-identifiers (quasi_columns argument)
    pandas_build,  \* which pandas build is installed (fixed for the process)
    risk,          \* outcome of the last calculate_risk call
    rng,           \* state of numpy's process-wide generator (np.random)
    num_col,       \* column selected for noise
    noise_scale,   \* Laplace scale
    random_seed,   \* seed widget value
    anon_df,       \* table produced by the transforms
    risk_after,    \* outcome of the re-score inside Apply Privacy
    flow,          \* outcome of the Apply Privacy handler
    pc,            \* per session: position inside add_laplace_noise
    seed,          \* per session: random_state argument of the running call
    noise,         \* per session: the local `noise` array
    out            \* per session: outcome of the finished call

vars == <<micro_df, true_df, quasi_cols, pandas_build, risk, rng, num_col,
          noise_scale, random_seed, anon_df, risk_after, flow, pc, seed,
          noise, out>>

(***************************************************************************)
(* Bounds of the model                                                     *)
(***************************************************************************)
MaxRows == 2        \* rows per table in the scoring specification
MaxAge == 122       \* largest age fed to generalise_age (ages start below 0)
MaxAgeRows == 1     \* rows per table in the generalisation specification
MaxNoiseRows == 2   \* rows per table in the noise specifications
MaxFlowRows == 1    \* rows per table in the Apply Privacy specification

(***************************************************************************)
(* Cells, rows, tables                                                     *)
(***************************************************************************)
NA == [kind |-> "na", v |-> 0]
Num(n) == [kind |-> "num", v |-> n]
Str(i) == [kind |-> "str", v |-> i]
Cat(code) == [kind |-> "cat", v |-> code]
StrPool == <<"F", "M">>

SeqsUpTo(S, n) == UNION {[1..k -> S] : k \in 0..n}

\* Tables whose columns are the domain of `domains` (column -> set of cells)
\* and whose dtypes are `dtypes`, with at most n rows.
TablesOver(dtypes, domains, n) ==
    LET Rows == {r \in [DOMAIN dtypes -> UNION {domains[c] : c \in DOMAIN dtypes}] :
                    \A c \in DOMAIN dtypes : r[c] \in domains[c]}
    IN  {[dtypes |-> dtypes, rows |-> rs] : rs \in SeqsUpTo(Rows, n)}

columns(df) == DOMAIN df.dtypes
len(df) == Len(df.rows)
EmptyTable == [dtypes |-> <<>>, rows |-> <<>>]

(***************************************************************************)
(* calculate_risk                                                          *)
(***************************************************************************)
\* Key equality of DataFrame.merge: two key cells are equal when they hold
\* the same value; pandas also matches a NaN key with a NaN key.
KeyCellEq(a, b) ==
    \/ a.kind = "na" /\ b.kind = "na"
    \/ a.kind # "na" /\ b.kind # "na" /\ a = b

\* A join that compares only the first key column.
KeyEq_first_key_only(lrow, rrow, on) ==
    on # <<>> => KeyCellEq(lrow[on[1]], rrow[on[1]])

KeyEq(lrow, rrow, on) ==
    \A k \in 1..Len(on) : KeyCellEq(lrow[on[k]], rrow[on[k]])

\* The right rows joined to one left row, in right order.
RECURSIVE JoinOne(_, _, _, _, _)
JoinOne(i, lrow, right, on, j) ==
    IF j > Len(right.rows) THEN <<>>
    ELSE (IF KeyEq(lrow, right.rows[j], on) THEN <<(<<i, j>>)>> ELSE <<>>)
         \o JoinOne(i, lrow, right, on, j + 1)

\* microdata.merge(true_ids, on=quasi_columns, how="inner"): one output row
\* per (left row, right row) pairing with equal keys.
RECURSIVE MergeFrom(_, _, _, _)
MergeFrom(left, right, on, i) ==
    IF i > Len(left.rows) THEN <<>>
    ELSE JoinOne(i, left.rows[i], right, on, 1) \o MergeFrom(left, right, on, i + 1)

merge(left, right, on) == MergeFrom(left, right, on, 1)

\* pandas has no join indexer for an empty key list: merge(on=[]) raises
\* inside the library, IndexError or ValueError depending on the build.
EmptyKeyErrors == {"IndexError", "ValueError"}

NoRisk == [kind |-> "none", missing_in_micro |-> <<>>, missing_in_true |-> <<>>,
           match_count |-> 0, risk_num |-> 0, risk_den |-> 1]

\* Both lists computed against the microdata columns.
missing_in_microdata_only(df, quasi_columns) ==
    SelectSeq(quasi_columns, LAMBDA c : c \notin columns(micro_df))

missing_in(df, quasi_columns) ==
    SelectSeq(quasi_columns, LAMBDA c : c \notin columns(df))

\* risk_percent as the exact fraction risk_num / risk_den.
risk_percent(match_count, n) ==
    IF n > 0 THEN [num |-> match_count * 100, den |-> n]
    ELSE [num |-> 0, den |-> 1]

calculate_risk(microdata, true_ids, quasi_columns, build) ==
    LET missing_in_micro == missing_in(microdata, quasi_columns)
        missing_in_true == missing_in(true_ids, quasi_columns)
    IN  IF missing_in_micro # <<>> \/ missing_in_true # <<>>
        THEN [NoRisk EXCEPT !.kind = "KeyError",
                            !.missing_in_micro = missing_in_micro,
                            !.missing_in_true = missing_in_true]
        ELSE IF quasi_columns = <<>>
        THEN [NoRisk EXCEPT !.kind = build]
        ELSE LET merged == merge(microdata, true_ids, quasi_columns)
                 match_count == Len(merged)
                 pct == risk_percent(match_count, len(microdata))
             IN  [NoRisk EXCEPT !.kind = "ok", !.match_count = match_count,
                                !.risk_num = pct.num, !.risk_den = pct.den]

(***************************************************************************)
(* Scoring specification: calculate_risk on arbitrary small inputs         *)
(***************************************************************************)
Sessions == {1, 2}
NoSeed == -1

RiskDomains == [age |-> {NA, Num(25), Num(31)}, gender |-> {Str(1), Str(2)}]
RiskDtypes == {[age |-> "num", gender |-> "str"], [gender |-> "str"], [age |-> "num"]}
Restrict(f, S) == [c \in S |-> f[c]]
RiskTables ==
    UNION {TablesOver(d, Restrict(RiskDomains, DOMAIN d), MaxRows) : d \in RiskDtypes}
QuasiChoices == {<<>>, <<"age">>, <<"gender">>, <<"age", "gender">>, <<"gender", "age">>}

IdleSessions ==
    /\ pc = [s \in Sessions |-> "idle"]
    /\ seed = [s \in Sessions |-> NoSeed]
    /\ noise = [s \in Sessions |-> <<>>]
    /\ out = [s \in Sessions |-> [kind |-> "none", df |-> EmptyTable]]

NoFlow ==
    /\ num_col = "income"
    /\ noise_scale = 1
    /\ random_seed = 0
    /\ anon_df = EmptyTable
    /\ risk_after = NoRisk
    /\ flow = "idle"

InitRisk ==
    /\ micro_df \in RiskTables
    /\ true_df \in RiskTables
    /\ quasi_cols \in QuasiChoices
    /\ pandas_build \in EmptyKeyErrors
    /\ risk = NoRisk
    /\ rng = 0
    /\ NoFlow
    /\ IdleSessions

\* One call calculate_risk(micro_df, true_df, quasi_cols).
CalculateRisk ==
    /\ risk.kind = "none"
    /\ risk' = calculate_risk(micro_df, true_df, quasi_cols, pandas_build)
    /\ UNCHANGED <<micro_df, true_df, quasi_cols, pandas_build, rng, num_col,
                   noise_scale, random_seed, anon_df, risk_after, flow, pc,
                   seed, noise, out>>

NextRisk == CalculateRisk
SpecRisk == InitRisk /\ [][NextRisk]_vars

(***************************************************************************)
(* Claims about calculate_risk (checked under SpecRisk)                    *)
(***************************************************************************)
Called == risk.kind # "none"
Range(q) == {q[k] : k \in 1..Len(q)}
ColumnsExist ==
    Range(quasi_cols) \subseteq (columns(micro_df) \cap columns(true_df))
RowPairs == (1..len(micro_df)) \X (1..len(true_df))
Agree(p) ==
    \A c \in Range(quasi_cols) : micro_df.rows[p[1]][c] = true_df.rows[p[2]][c]
Complete(row) == \A c \in Range(quasi_cols) : row[c].kind # "na"
AgreeingPairs == {p \in RowPairs : Agree(p)}

\* C1: for every quasi-identifier set whose columns exist in both tables,
\* calculate_risk returns match_count = the number of (microdata row,
\* reference row) pairs that agree on every selected column.
C1_MatchCountIsPairCount ==
    (Called /\ ColumnsExist) =>
        /\ risk.kind = "ok"
        /\ risk.match_count = Cardinality(AgreeingPairs)

\* C2: a row with a missing value in a selected quasi-identifier column
\* never contributes to match_count (missing never matches, not even
\* missing against missing).
C2_MissingNeverMatches ==
    risk.kind = "ok" =>
        risk.match_count =
            Cardinality({p \in AgreeingPairs :
                            /\ Complete(micro_df.rows[p[1]])
                            /\ Complete(true_df.rows[p[2]])})

\* C3: risk_percent = 100 * match_count / len(microdata) when microdata is
\* non-empty, and the call returns (0, 0.0) without raising when microdata
\* is empty, for every quasi-identifier set whose columns exist in both.
C3_RiskPercentFormula ==
    (Called /\ ColumnsExist) =>
        /\ risk.kind = "ok"
        /\ len(micro_df) > 0 =>
              risk.risk_num * len(micro_df) = 100 * risk.match_count * risk.risk_den
        /\ len(micro_df) = 0 => (risk.match_count = 0 /\ risk.risk_num = 0)

\* C4 as stated: every returned result has match_count >= 0 and
\* risk_percent within [0, 100].
C4_PercentWithin0And100 ==
    risk.kind = "ok" =>
        /\ risk.match_count \in Nat
        /\ 0 <= risk.risk_num
        /\ risk.risk_num <= 100 * risk.risk_den

NoDuplicateReferenceKeys ==
    \A i, j \in 1..len(true_df) :
        (i # j) => \E c \in Range(quasi_cols) :
                        true_df.rows[i][c] # true_df.rows[j][c]

\* C4 as amended: every returned result has match_count >= 0 and
\* risk_percent >= 0; risk_percent is at most 100 exactly when match_count
\* is at most the number of microdata rows, which is the case whenever no
\* two reference rows carry the same quasi-identifier tuple.
C4_PercentBoundedWithoutDuplicates ==
    risk.kind = "ok" =>
        /\ risk.match_count \in Nat
        /\ 0 <= risk.risk_num /\ 0 < risk.risk_den
        /\ (risk.risk_num <= 100 * risk.risk_den) <=>
                (risk.match_count <= len(micro_df))
        /\ NoDuplicateReferenceKeys => risk.match_count <= len(micro_df)

\* Several microdata rows each matched once by a reference table of
\* distinct keys: 100 percent, the bound reached.
C4_Witness ==
    /\ risk.kind = "ok"
    /\ NoDuplicateReferenceKeys
    /\ len(true_df) = MaxRows
    /\ risk.match_count = len(micro_df)
    /\ risk.match_count > 1

\* C5: an empty quasi-identifier set is handled: the call does not fail and
\* returns the full cross-match len(microdata) * len(reference).
C5_EmptySetIsCrossMatch ==
    (Called /\ quasi_cols = <<>>) =>
        /\ risk.kind = "ok"
        /\ risk.match_count = len(micro_df) * len(true_df)

AbsentFrom(df) == {c \in Range(quasi_cols) : c \notin columns(df)}
ExactList(list, S) == Range(list) = S /\ Len(list) = Cardinality(S)

\* C6: the call fails with the missing-column error exactly when some
\* selected name is absent from microdata or from reference; the error
\* carries both lists, each holding exactly the absent names, and there is
\* no result.
C6_MissingColumnError ==
    Called =>
        /\ (risk.kind = "KeyError") <=> ~ColumnsExist
        /\ risk.kind = "KeyError" =>
              /\ ExactList(risk.missing_in_micro, AbsentFrom(micro_df))
              /\ ExactList(risk.missing_in_true, AbsentFrom(true_df))
              /\ risk.match_count = 0 /\ risk.risk_num = 0

C6_Witness ==
    /\ risk.kind = "KeyError"
    /\ risk.missing_in_micro = <<"age">>
    /\ risk.missing_in_true = <<"gender">>

(***************************************************************************)
(* generalise_age                                                          *)
(***************************************************************************)
bins == <<0, 20, 30, 40, 50, 60, 70, 120>>
labels == <<"<20", "20-29", "30-39", "40-49", "50-59", "60-69", "70+">>

\* bins.searchsorted(x, side="right"): how many leading edges are <= x.
RECURSIVE searchsorted(_, _, _)
searchsorted(edges, x, k) ==
    IF k > Len(edges) THEN 0
    ELSE IF edges[k] <= x THEN 1 + searchsorted(edges, x, k + 1)
    ELSE 0

\* pd.cut(..., right=False) on one cell: the categorical code ids - 1, or
\* NaN for a missing value and for a value left of the first or at or
\* right of the last edge.
\* pd.cut with its default right=True: ranges closed on the right.
cut_right_closed(cell) ==
    IF cell.kind # "num" THEN NA
    ELSE LET ids == Cardinality({k \in 1..Len(bins) : bins[k] < cell.v})
         IN  IF ids = 0 \/ ids = Len(bins) THEN NA ELSE Cat(ids - 1)

cut(cell) ==
    IF cell.kind # "num" THEN NA
    ELSE LET ids == searchsorted(bins, cell.v, 1)
         IN  IF ids = 0 \/ ids = Len(bins) THEN NA ELSE Cat(ids - 1)

\* The label a cell of the generalised column shows.
Label(cell) == IF cell.kind = "cat" THEN labels[cell.v + 1] ELSE "missing"

generalise_age(df, column) ==
    IF column \notin columns(df) THEN df
    ELSE IF df.dtypes[column] # "num" THEN df      \* pd.cut raises, swallowed
    ELSE [dtypes |-> [df.dtypes EXCEPT ![column] = "category"],
          rows |-> [i \in 1..len(df) |->
                      [df.rows[i] EXCEPT ![column] = cut(df.rows[i][column])]]]

(***************************************************************************)
(* Generalisation specification: generalise_age(micro_df, "age")           *)
(***************************************************************************)
Ages == {NA} \cup {Num(a) : a \in (0 - 3)..MaxAge}
AgeTables ==
    TablesOver([age |-> "num"], [age |-> Ages], MaxAgeRows)
    \cup TablesOver([age |-> "num", gender |-> "str"],
                    [age |-> {Num(20), Num(69), Num(150)}, gender |-> {Str(1)}],
                    MaxAgeRows)
    \cup TablesOver([age |-> "str"], [age |-> {NA, Str(1)}], MaxAgeRows)
    \cup TablesOver([gender |-> "str"], [gender |-> {Str(1), Str(2)}], MaxAgeRows)

InitAge ==
    /\ micro_df \in AgeTables
    /\ true_df = EmptyTable
    /\ quasi_cols = <<>>
    /\ pandas_build \in EmptyKeyErrors
    /\ risk = NoRisk
    /\ rng = 0
    /\ NoFlow
    /\ IdleSessions

GeneraliseAge ==
    /\ flow = "idle"
    /\ anon_df' = generalise_age(micro_df, "age")
    /\ flow' = "generalised"
    /\ UNCHANGED <<micro_df, true_df, quasi_cols, pandas_build, risk, rng,
                   num_col, noise_scale, random_seed, risk_after, pc, seed,
                   noise, out>>

NextAge == GeneraliseAge
SpecAge == InitAge /\ [][NextAge]_vars

\* The label the half-open ranges of the claim give age a.
RangeLabel(a) ==
    CASE 0 <= a /\ a < 20 -> "<20"
      [] 20 <= a /\ a < 30 -> "20-29"
      [] 30 <= a /\ a < 40 -> "30-39"
      [] 40 <= a /\ a < 50 -> "40-49"
      [] 50 <= a /\ a < 60 -> "50-59"
      [] 60 <= a /\ a < 70 -> "60-69"
      [] 70 <= a /\ a < 120 -> "70+"
      [] OTHER -> "missing"

\* C9: generalise_age replaces each numeric age by the label of the
\* half-open range [0,20), [20,30), ..., [70,120) containing it, turns every
\* age below 0 or at or above 120 into a missing value, leaves the other
\* columns alone, and returns the table unchanged when the column is absent.
C9_GeneraliseAgeBuckets ==
    flow = "generalised" =>
        IF "age" \notin columns(micro_df) THEN anon_df = micro_df
        ELSE /\ columns(anon_df) = columns(micro_df)
             /\ len(anon_df) = len(micro_df)
             /\ \A i \in 1..len(micro_df) :
                   /\ \A c \in columns(micro_df) \ {"age"} :
                         anon_df.rows[i][c] = micro_df.rows[i][c]
                   /\ micro_df.rows[i]["age"].kind = "num" =>
                         LET a == micro_df.rows[i]["age"].v
                             r == anon_df.rows[i]["age"]
                         IN  /\ Label(r) = RangeLabel(a)
                             /\ (a < 0 \/ a >= 120) => r = NA

C9_Witness ==
    /\ flow = "generalised"
    /\ len(micro_df) > 0
    /\ "age" \in columns(micro_df)
    /\ micro_df.rows[1]["age"] = Num(20)
    /\ Label(anon_df.rows[1]["age"]) = "20-29"

(***************************************************************************)
(* add_laplace_noise and numpy's process-wide generator                    *)
(*                                                                         *)
(* The generator is modelled as a full-period congruential generator on    *)
(* RngStates: np.random.seed(s) puts it in a state fixed by s, every       *)
(* sample advances it and is a function of the state reached.  Noise is    *)
(* kept in half units so that round() (half to even) has work to do.       *)
(***************************************************************************)
RngStates == 0..7
seeded(s) == (3 * s + 1) % 8
advance(g) == (5 * g + 1) % 8

\* One Laplace(0, scale) sample in half units: negative for the lower half
\* of the uniform draw, non-negative for the upper half.
laplace_sample(g, scale) == scale * (g - 4)

\* np.random.laplace(loc=0, scale=scale, size=n) from generator state g.
RECURSIVE laplace(_, _, _)
laplace(g, scale, n) ==
    IF n = 0 THEN [noise |-> <<>>, rng |-> g]
    ELSE LET g1 == advance(g)
             rest == laplace(g1, scale, n - 1)
         IN  [noise |-> <<laplace_sample(g1, scale)>> \o rest.noise,
              rng |-> rest.rng]

\* numpy round of x2 / 2 (x2 the value in half units): half to even.
round_half_even(x2) ==
    IF x2 % 2 = 0 THEN x2 \div 2
    ELSE LET lo == (x2 - 1) \div 2
         IN  IF lo % 2 = 0 THEN lo ELSE lo + 1

\* Lines 13-14: the seed, when given, is written to the process-wide generator.
set_seed(g, random_state) ==
    IF random_state # NoSeed THEN seeded(random_state) ELSE g

\* Lines 16-19 on the copy made at line 12: the outcome, the returned table
\* and the caller's table (arg) as the call leaves it.
apply_noise(df, column, noise_arr) ==
    IF column \notin columns(df)
    THEN [kind |-> "KeyError", df |-> EmptyTable, arg |-> df]
    ELSE IF df.dtypes[column] # "num"
    THEN [kind |-> "ValueError", df |-> EmptyTable, arg |-> df]
    ELSE IF \E i \in 1..len(df) : df.rows[i][column].kind = "na"
    THEN [kind |-> "ValueError", df |-> EmptyTable, arg |-> df]  \* astype(int) of NaN
    ELSE [kind |-> "ok",
          df |-> [df EXCEPT !.rows =
                    [i \in 1..len(df) |->
                       [df.rows[i] EXCEPT ![column] =
                          Num(round_half_even(2 * df.rows[i][column].v + noise_arr[i]))]]],
          arg |-> df]

\* The whole function, run without interruption from generator state g.
add_laplace_noise(df, column, scale, random_state, g) ==
    LET drawn == laplace(set_seed(g, random_state), scale, len(df))
        res == apply_noise(df, column, drawn.noise)
    IN  [kind |-> res.kind, df |-> res.df, arg |-> res.arg, rng |-> drawn.rng]

NoOut == [kind |-> "none", df |-> EmptyTable]
SeedChoices == {1, 2}
NoiseTables ==
    TablesOver([income |-> "num", gender |-> "str"],
               [income |-> {Num(10), NA}, gender |-> {Str(1)}], MaxNoiseRows)

InitNoise ==
    /\ micro_df \in NoiseTables
    /\ true_df = EmptyTable
    /\ quasi_cols = <<>>
    /\ pandas_build \in EmptyKeyErrors
    /\ risk = NoRisk
    /\ rng \in RngStates
    /\ num_col \in {"income", "gender"}
    /\ noise_scale \in {1, 3}
    /\ random_seed = 0
    /\ anon_df = EmptyTable
    /\ risk_after = NoRisk
    /\ flow = "idle"
    /\ IdleSessions

NoiseFrame == <<micro_df, true_df, quasi_cols, pandas_build, risk, num_col,
                noise_scale, random_seed, anon_df, risk_after, flow>>

(***************************************************************************)
(* Call specification: whole calls of add_laplace_noise, one after another *)
(***************************************************************************)
AddLaplaceNoise ==
    \E s \in SeedChoices \cup {NoSeed} :
        LET r == add_laplace_noise(micro_df, num_col, noise_scale, s, rng)
        IN  /\ rng' = r.rng
            /\ seed' = [seed EXCEPT ![1] = s]
            /\ out' = [out EXCEPT ![1] = [kind |-> r.kind, df |-> r.df]]
            /\ pc' = [pc EXCEPT ![1] = "done"]
            /\ UNCHANGED noise
            /\ UNCHANGED NoiseFrame

NextCalls == AddLaplaceNoise
SpecCalls == InitNoise /\ [][NextCalls]_vars

\* C7: a seeded call fixes the generator for that call only: after a seeded
\* call has returned its noised table, the generator state a later call
\* sees is the state it would see had the seeded call not happened.
C7_SeededCallLeavesGenerator ==
    [][(/\ pc'[1] = "done" /\ seed'[1] # NoSeed
        /\ out'[1].kind = "ok" /\ len(micro_df) > 0) => rng' = rng]_vars

(***************************************************************************)
(* Session specification: two sessions of one process inside               *)
(* add_laplace_noise, interleaved between its statements                   *)
(***************************************************************************)
\* Line 11-12: entry, the table is copied.
Call(t) ==
    /\ pc[t] = "idle"
    /\ \E s \in SeedChoices \cup {NoSeed} : seed' = [seed EXCEPT ![t] = s]
    /\ pc' = [pc EXCEPT ![t] = "seed"]
    /\ UNCHANGED <<rng, noise, out>>
    /\ UNCHANGED NoiseFrame

\* Lines 13-14.
SetSeed(t) ==
    /\ pc[t] = "seed"
    /\ rng' = set_seed(rng, seed[t])
    /\ pc' = [pc EXCEPT ![t] = "sample"]
    /\ UNCHANGED <<seed, noise, out>>
    /\ UNCHANGED NoiseFrame

\* Line 15.
Sample(t) ==
    /\ pc[t] = "sample"
    /\ LET drawn == laplace(rng, noise_scale, len(micro_df))
       IN  /\ noise' = [noise EXCEPT ![t] = drawn.noise]
           /\ rng' = drawn.rng
    /\ pc' = [pc EXCEPT ![t] = "apply"]
    /\ UNCHANGED <<seed, out>>
    /\ UNCHANGED NoiseFrame

\* Lines 16-19.
Apply(t) ==
    /\ pc[t] = "apply"
    /\ LET res == apply_noise(micro_df, num_col, noise[t])
       IN  out' = [out EXCEPT ![t] = [kind |-> res.kind, df |-> res.df]]
    /\ noise' = [noise EXCEPT ![t] = <<>>]
    /\ pc' = [pc EXCEPT ![t] = "done"]
    /\ UNCHANGED <<rng, seed>>
    /\ UNCHANGED NoiseFrame

\* The caller takes the result; the session may call again.
Return(t) ==
    /\ pc[t] = "done"
    /\ pc' = [pc EXCEPT ![t] = "idle"]
    /\ seed' = [seed EXCEPT ![t] = NoSeed]
    /\ out' = [out EXCEPT ![t] = NoOut]
    /\ UNCHANGED <<rng, noise>>
    /\ UNCHANGED NoiseFrame

NextSessions ==
    \E t \in Sessions : Call(t) \/ SetSeed(t) \/ Sample(t) \/ Apply(t) \/ Return(t)
SpecSessions == InitNoise /\ [][NextSessions]_vars

\* What the call of session t returns when it runs alone.
Alone(t) == add_laplace_noise(micro_df, num_col, noise_scale, seed[t], rng)

\* C8: when two calls with different seeds run concurrently, each returns
\* exactly what it returns when run alone with its seed and input.
C8_ConcurrentSeededCallsIsolated ==
    \A t, u \in Sessions :
        (/\ t # u
         /\ pc[t] = "done"
         /\ seed[t] # NoSeed /\ seed[u] # NoSeed /\ seed[t] # seed[u])
        => (out[t].kind = Alone(t).kind /\ out[t].df = Alone(t).df)

(***************************************************************************)
(* UI specification: the Calculate Risk and Apply Privacy buttons of one   *)
(* session (lines 78-125)                                                  *)
(***************************************************************************)
common_cols(micro, true) == columns(micro) \cap columns(true)
numeric_cols(df) == {c \in columns(df) : df.dtypes[c] = "num"}

\* Line 118: the quasi-identifiers of the re-score.
\* A re-score that keeps "age".
new_quasi_keeps_age(q) == q

new_quasi(q) == SelectSeq(q, LAMBDA c : c # "age")

FlowMicroTables ==
    TablesOver([age |-> "num", gender |-> "str", income |-> "num"],
               [age |-> {Num(25), Num(31)}, gender |-> {Str(1), Str(2)},
                income |-> {Num(10), NA}], MaxFlowRows)
    \cup TablesOver([gender |-> "str", income |-> "num"],
                    [gender |-> {Str(1), Str(2)}, income |-> {Num(10), NA}],
                    MaxFlowRows)
FlowTrueTables ==
    TablesOver([age |-> "num", gender |-> "str", income |-> "num"],
               [age |-> {Num(25)}, gender |-> {Str(1), Str(2)},
                income |-> {Num(10)}], MaxFlowRows)

\* The selections the multiselect offers: the columns common to both tables.
Selections(common) ==
    {SelectSeq(<<"age", "gender", "income">>, LAMBDA c : c \in S) : S \in SUBSET common}

InitUI ==
    /\ micro_df \in FlowMicroTables
    /\ true_df \in FlowTrueTables
    /\ quasi_cols \in Selections(common_cols(micro_df, true_df))
    /\ pandas_build \in EmptyKeyErrors
    /\ risk = NoRisk
    /\ rng \in {0, 5}
    /\ num_col \in numeric_cols(micro_df)
    /\ noise_scale \in {3}
    /\ random_seed \in SeedChoices
    /\ anon_df = EmptyTable
    /\ risk_after = NoRisk
    /\ flow = "idle"
    /\ IdleSessions

\* Lines 86-91.
CalculateRiskButton ==
    /\ risk.kind = "none"
    /\ risk' = calculate_risk(micro_df, true_df, quasi_cols, pandas_build)
    /\ UNCHANGED <<micro_df, true_df, quasi_cols, pandas_build, rng, num_col,
                   noise_scale, random_seed, anon_df, risk_after, flow, pc,
                   seed, noise, out>>

\* Lines 104-125, the whole handler.
ApplyPrivacy ==
    /\ flow = "idle"
    /\ LET noised == add_laplace_noise(micro_df, num_col, noise_scale, random_seed, rng)
           generalised == IF "age" \in columns(noised.df)
                          THEN generalise_age(noised.df, "age") ELSE noised.df
           rescored == calculate_risk(generalised, true_df, new_quasi(quasi_cols),
                                      pandas_build)
       IN  /\ rng' = noised.rng
           /\ micro_df' = noised.arg
           /\ IF noised.kind # "ok"
              THEN /\ flow' = "error"
                   /\ UNCHANGED <<anon_df, risk_after>>
              ELSE /\ anon_df' = generalised
                   /\ risk_after' = rescored
                   /\ flow' = IF rescored.kind = "ok" THEN "done" ELSE "error"
    /\ UNCHANGED <<true_df, quasi_cols, pandas_build, risk, num_col, noise_scale,
                   random_seed, pc, seed, noise, out>>

NextUI == CalculateRiskButton \/ ApplyPrivacy
SpecUI == InitUI /\ [][NextUI]_vars

\* The quasi-identifier set with "age" removed.
ReducedSet == SelectSeq(quasi_cols, LAMBDA c : c # "age")

\* C10: in the Apply Privacy flow, when num_col is not one of the remaining
\* quasi-identifiers, the re-score of the transformed table equals
\* calculate_risk of the original microdata on the reduced set, and the
\* original microdata table is left unmodified.
C10_RescoreUnaffectedColumns ==
    [][(flow = "idle" /\ flow' # "idle") =>
          /\ micro_df' = micro_df
          /\ (risk_after'.kind # "none" /\ num_col \notin Range(ReducedSet)) =>
                risk_after' = calculate_risk(micro_df, true_df, ReducedSet,
                                             pandas_build)]_vars

C10_Witness ==
    /\ flow = "done"
    /\ "age" \in Range(quasi_cols)
    /\ ReducedSet # <<>>
    /\ num_col \notin Range(ReducedSet)
    /\ risk_after.match_count > 0
    /\ \E i \in 1..len(micro_df) : anon_df.rows[i] # micro_df.rows[i]

====
